---- MODULE Spec2Model ----
(***************************************************************************)
(* Order-k character n-gram (Markov) model of markov_model.py: the two     *)
(* trainers, the three smoothers, the model facade and persistence.        *)
(*                                                                         *)
(* Characters are their code points, strings are sequences of characters,  *)
(* the frequency table is a function whose DOMAIN is the set of keys the   *)
(* dict holds.  A probability vector entry is the exact quotient num/den   *)
(* of the float64 division the code performs; den = 0 is the value numpy   *)
(* leaves after dividing by zero (nan for 0/0, inf otherwise).             *)
(***************************************************************************)
EXTENDS Integers, Sequences, FiniteSets, TLC

\* ---------------------------------------------------------------- bounds
MaxOrder == 3
MaxPwdLen == 2
MaxTrain == 1
MaxCtxLen == 2
MaxAmount == 1
MaxCorpus == 2

\* ------------------------------------------------------------- constants
PASSWORD_START == 9
PASSWORD_END == 36
DEFAULT_additive_smoothing_amount == 0
DEFAULT_backoff_smoothing_threshold == 10

\* config.char_bag: the end sentinel and the letters a, b
Letters == {97, 98}
char_bag == {PASSWORD_END} \cup Letters
AllChars == char_bag \cup {PASSWORD_START}
\* the characters a caller may ask about: one of them in no alphabet
NextChars == {PASSWORD_END, 98, PASSWORD_START, 122}

Weights == {-1, 1, 2}
Thresholds == {0, 2, DEFAULT_backoff_smoothing_threshold}

\* python's None, where a smoother, a file or a model is expected
None == [kind |-> "None"]
NoValue == "None"

\* ------------------------------------------------------- python helpers
Min(a, b) == IF a < b THEN a ELSE b
Max(a, b) == IF a > b THEN a ELSE b

\* range(a, b) as a sequence
RECURSIVE range(_, _)
range(a, b) == IF a >= b THEN <<>> ELSE <<a>> \o range(a + 1, b)

\* a slice bound as python clamps it for a sequence of length n
PyIndex(i, n) == IF i < 0 THEN Max(i + n, 0) ELSE Min(i, n)

\* s[start:stop]
PySlice(s, start, stop) ==
    LET a == PyIndex(start, Len(s))
        b == PyIndex(stop, Len(s))
    IN  IF a < b THEN SubSeq(s, a + 1, b) ELSE <<>>

\* s[start:]
PySliceFrom(s, start) == PySlice(s, start, Len(s))

\* sorted(S) for a set of code points
RECURSIVE sorted(_)
sorted(S) ==
    IF S = {} THEN <<>>
    ELSE LET m == CHOOSE x \in S : \A y \in S : x <= y
         IN  <<m>> \o sorted(S \ {m})

\* all strings over S of length 0..n
RECURSIVE Strings(_, _)
Strings(S, n) ==
    IF n = 0 THEN {<<>>}
    ELSE LET shorter == Strings(S, n - 1)
         IN  shorter \cup {Append(s, c) : s \in {t \in shorter : Len(t) = n - 1}, c \in S}

\* ------------------------------------------------------------- the state
VARIABLES
    config_char_bag,              \* config.char_bag as the constructor got it
    cls,                          \* "MarkovModel" or "BackoffMarkovModel"
    smoothing,                    \* key of SMOOTHING_MAP
    order,                        \* self.order
    additive_smoothing_amount,    \* config.additive_smoothing_amount
    backoff_smoothing_threshold,  \* config.backoff_smoothing_threshold
    freq_dict,                    \* self.freq_dict
    smoother,                     \* None until train() or fromModelFile binds it
    pc,                           \* where the program is, see below
    ctr,                          \* train()'s count of passwords trained on
    model_file,                   \* what saveModel wrote, None before
    reloaded,                     \* freq_dict of the model fromModelFile built
    last                          \* the last call made and what it returned

vars == <<config_char_bag, cls, smoothing, order, additive_smoothing_amount,
          backoff_smoothing_threshold, freq_dict, smoother, pc, ctr,
          model_file, reloaded, last>>

config_vars == <<config_char_bag, cls, smoothing, order, additive_smoothing_amount,
                 backoff_smoothing_threshold>>

\* ----------------------------------------------------------- the trainer
\* MarkovModel.increment: [status, freq_dict]
increment(d, k, pwd, freq) ==
    IF freq = 0 \/ Len(pwd) > k
    THEN [status |-> "AssertionError", freq_dict |-> d]
    ELSE [status |-> "ok",
          freq_dict |-> IF pwd \in DOMAIN d
                        THEN [d EXCEPT ![pwd] = @ + freq]
                        ELSE d @@ (pwd :> freq)]

\* the increment calls of a trainer, in order, stopping at the first failure
RECURSIVE ApplyIncrements(_, _, _, _)
ApplyIncrements(d, k, ngrams, freq) ==
    IF ngrams = <<>> THEN [status |-> "ok", freq_dict |-> d]
    ELSE LET r == increment(d, k, Head(ngrams), freq)
         IN  IF r.status # "ok" THEN r
             ELSE ApplyIncrements(r.freq_dict, k, Tail(ngrams), freq)

\* MarkovModel.train_on_pwd: the ngrams it passes to increment, in order
MarkovModel_ngrams(k, pwd) ==
    LET pwd_len_plus_one == Len(pwd) + 1
        js == range(1, Min(k, pwd_len_plus_one))
        is == range(0, pwd_len_plus_one - k)
    IN  [n \in 1..Len(js) |-> PySlice(pwd, 0, js[n])]
        \o [n \in 1..Len(is) |-> PySlice(pwd, is[n], is[n] + k)]
        \o << PySliceFrom(pwd, -k + 1) \o <<PASSWORD_END>> >>

MarkovModel_train_on_pwd(d, k, pwd, freq) ==
    ApplyIncrements(d, k, MarkovModel_ngrams(k, pwd), freq)

\* BackoffMarkovModel.train_on_pwd: the ngrams it passes to increment
RECURSIVE BackoffRows(_, _, _)
BackoffRows(k, pwd_norm, pwd_idx) ==
    IF pwd_idx >= Len(pwd_norm) THEN <<>>
    ELSE LET pwd_idx_plus_one == pwd_idx + 1
             os == range(0, Min(k, Len(pwd_norm) - pwd_idx))
         IN  [n \in 1..Len(os) |->
                 PySlice(pwd_norm, pwd_idx, pwd_idx_plus_one + os[n])]
             \o BackoffRows(k, pwd_norm, pwd_idx + 1)

\* BackoffMarkovModel.train_on_pwd that leaves PASSWORD_START out of pwd_norm
BackoffMarkovModel_ngrams_nostart(k, pwd) ==
    BackoffRows(k, pwd \o <<PASSWORD_END>>, 0)

BackoffMarkovModel_ngrams(k, pwd) ==
    BackoffRows(k, <<PASSWORD_START>> \o pwd \o <<PASSWORD_END>>, 0)

BackoffMarkovModel_train_on_pwd(d, k, pwd, freq) ==
    ApplyIncrements(d, k, BackoffMarkovModel_ngrams(k, pwd), freq)

train_on_pwd(c, d, k, pwd, freq) ==
    IF c = "BackoffMarkovModel"
    THEN BackoffMarkovModel_train_on_pwd(d, k, pwd, freq)
    ELSE MarkovModel_train_on_pwd(d, k, pwd, freq)

\* ---------------------------------------------------------- the smoothers
\* NoSmoothingSmoother.__init__: self.alphabet
smoother_alphabet == sorted(char_bag)

\* a vector of n zeros (np.zeros)
zeros(n) == [i \in 1..n |-> 0]

\* NoSmoothingSmoother.freq
NoSmoothingSmoother_freq(d, ngram) ==
    IF ngram \in DOMAIN d THEN d[ngram] ELSE 0

\* AdditiveSmoothingSmoother.freq that adds nothing to an ngram it never saw
AdditiveSmoothingSmoother_freq_unseen(d, amount, ngram) ==
    IF ngram \in DOMAIN d THEN d[ngram] + amount ELSE 0

\* AdditiveSmoothingSmoother.freq
AdditiveSmoothingSmoother_freq(d, amount, ngram) ==
    IF ngram \in DOMAIN d THEN d[ngram] + amount ELSE amount

\* BackoffSmoother.freq
BackoffSmoother_freq(d, amount, threshold, ngram) ==
    LET answer == IF ngram \in DOMAIN d THEN d[ngram] + amount ELSE amount
    IN  IF answer < threshold THEN 0 ELSE answer

\* a smoother is the record of what its constructor binds
make_smoother(kind, d, amount, threshold) ==
    [kind |-> kind, freq_dict |-> d, amount |-> amount, threshold |-> threshold]

\* self.freq(ngram), dispatched on the smoother's class
freq(sm, ngram) ==
    CASE sm.kind = "none" -> NoSmoothingSmoother_freq(sm.freq_dict, ngram)
      [] sm.kind = "additive" ->
            AdditiveSmoothingSmoother_freq(sm.freq_dict, sm.amount, ngram)
      [] sm.kind = "backoff" ->
            BackoffSmoother_freq(sm.freq_dict, sm.amount, sm.threshold, ngram)

\* the sum of a sequence of integers
RECURSIVE SumSeq(_)
SumSeq(s) == IF s = <<>> THEN 0 ELSE Head(s) + SumSeq(Tail(s))

\* NoSmoothingSmoother.sum_elems: the vector it leaves and the sum it returns
sum_elems(sm, ctx_arg, answer) ==
    LET fs == [i \in 1..Len(smoother_alphabet) |->
                  freq(sm, Append(ctx_arg, smoother_alphabet[i]))]
    IN  [answer |-> [i \in 1..Len(answer) |->
                        IF i <= Len(fs) THEN answer[i] + fs[i] ELSE answer[i]],
         total_sum |-> SumSeq(fs)]

\* answer[i] /= total_sum on a float64 vector
Quotient(x, total_sum) ==
    IF total_sum < 0 THEN [num |-> -x, den |-> -total_sum]
    ELSE [num |-> x, den |-> total_sum]

divide(answer, total_sum) ==
    [i \in 1..Len(answer) |-> Quotient(answer[i], total_sum)]

\* a vector no division has touched
undivided(answer) == [i \in 1..Len(answer) |-> [num |-> answer[i], den |-> 1]]

\* NoSmoothingSmoother._predict: one scan, then the division
NoSmoothingSmoother_predict(sm, ctx_arg, answer) ==
    LET s == sum_elems(sm, ctx_arg, answer)
    IN  [status |-> "ok", answer |-> divide(s.answer, s.total_sum), scans |-> 1]

\* BackoffSmoother._predict without answer.fill(0) before it backs off
RECURSIVE BackoffSmoother_predict_nofill(_, _, _)
BackoffSmoother_predict_nofill(sm, ctx_arg, answer) ==
    LET s == sum_elems(sm, ctx_arg, answer)
    IN  IF s.total_sum = 0
        THEN IF Len(ctx_arg) = 0
             THEN [status |-> "AssertionError",
                   answer |-> undivided(s.answer), scans |-> 1]
             ELSE LET r == BackoffSmoother_predict_nofill(
                               sm, PySliceFrom(ctx_arg, 1), s.answer)
                  IN  [r EXCEPT !.scans = @ + 1]
        ELSE [status |-> "ok", answer |-> divide(s.answer, s.total_sum),
              scans |-> 1]

\* BackoffSmoother._predict without the assertion on the empty context, its
\* recursion replaced by the division
RECURSIVE BackoffSmoother_predict_noassert(_, _, _)
BackoffSmoother_predict_noassert(sm, ctx_arg, answer) ==
    LET s == sum_elems(sm, ctx_arg, answer)
    IN  IF s.total_sum = 0 /\ Len(ctx_arg) # 0
        THEN LET r == BackoffSmoother_predict_noassert(
                          sm, PySliceFrom(ctx_arg, 1), zeros(Len(answer)))
             IN  [r EXCEPT !.scans = @ + 1]
        ELSE [status |-> "ok", answer |-> divide(s.answer, s.total_sum),
              scans |-> 1]

\* BackoffSmoother._predict; scans counts the calls of sum_elems
RECURSIVE BackoffSmoother_predict(_, _, _)
BackoffSmoother_predict(sm, ctx_arg, answer) ==
    LET s == sum_elems(sm, ctx_arg, answer)
    IN  IF s.total_sum = 0
        THEN IF Len(ctx_arg) = 0
             THEN [status |-> "AssertionError",
                   answer |-> undivided(zeros(Len(answer))), scans |-> 1]
             ELSE LET r == BackoffSmoother_predict(
                               sm, PySliceFrom(ctx_arg, 1), zeros(Len(answer)))
                  IN  [r EXCEPT !.scans = @ + 1]
        ELSE [status |-> "ok", answer |-> divide(s.answer, s.total_sum),
              scans |-> 1]

\* NoSmoothingSmoother.predict: the shape assertion, then _predict
smoother_predict(sm, ctx_arg, answer) ==
    IF Len(answer) # Len(smoother_alphabet)
    THEN [status |-> "AssertionError", answer |-> undivided(answer), scans |-> 0]
    ELSE IF sm.kind = "backoff"
         THEN BackoffSmoother_predict(sm, ctx_arg, answer)
         ELSE NoSmoothingSmoother_predict(sm, ctx_arg, answer)

\* collections.defaultdict(int).__getitem__: the dict that d[key] leaves, a key
\* it does not hold being inserted with int() = 0
defaultdict_getitem(d, key) ==
    IF key \in DOMAIN d THEN d
    ELSE [g \in DOMAIN d \cup {key} |-> IF g = key THEN 0 ELSE d[g]]

\* the table a freq that subscripts self.freq_dict without its test
\* `ngram in self.freq_dict` leaves
freq_dict_after_getitem(d, ngram) == defaultdict_getitem(d, ngram)

\* the table self.freq(ngram) leaves, the same for the three smoothers: the
\* subscript self.freq_dict[ngram] is evaluated for a key the table holds only,
\* which leaves the defaultdict of train() and the plain dict of json.load alike
freq_dict_after_freq(d, ngram) ==
    IF ngram \in DOMAIN d THEN defaultdict_getitem(d, ngram) ELSE d

\* the table sum_elems leaves, from the i-th character of the alphabet on
RECURSIVE freq_dict_after_sum_elems(_, _, _)
freq_dict_after_sum_elems(d, ctx_arg, i) ==
    IF i > Len(smoother_alphabet) THEN d
    ELSE freq_dict_after_sum_elems(
             freq_dict_after_freq(d, Append(ctx_arg, smoother_alphabet[i])),
             ctx_arg, i + 1)

\* the table smoother.predict leaves: one sum_elems for ctx_arg and one for each
\* shorter context it backed off to
RECURSIVE freq_dict_after_predict(_, _, _)
freq_dict_after_predict(d, ctx_arg, scans) ==
    IF scans = 0 THEN d
    ELSE freq_dict_after_predict(freq_dict_after_sum_elems(d, ctx_arg, 1),
                                 PySliceFrom(ctx_arg, 1), scans - 1)

\* ------------------------------------------------------------ the facade
\* MarkovModel.__init__ / BackoffMarkovModel.__init__: self.alphabet
model_alphabet(c) ==
    IF c = "BackoffMarkovModel"
    THEN sorted(char_bag) \o <<PASSWORD_START>>
    ELSE sorted(char_bag)

\* MarkovModel.__init__: self.chars_to_index, 0-based as in the code
chars_to_index ==
    LET a == sorted(char_bag)
    IN  [ch \in {a[i] : i \in 1..Len(a)} |->
            (CHOOSE i \in 1..Len(a) : a[i] = ch) - 1]

\* MarkovModel.truncate_context
truncate_context(k, context) ==
    IF Len(context) >= k THEN PySliceFrom(context, -(k - 1)) ELSE context

\* MarkovModel.predict
predict(sm, k, context, answer) ==
    smoother_predict(sm, truncate_context(k, context), answer)

\* MarkovModel.probability_next_char
probability_next_char(c, sm, k, context, nc) ==
    IF nc \notin DOMAIN chars_to_index
    THEN [status |-> "AssertionError", value |-> NoValue, predict_called |-> FALSE,
          probs_len |-> 0]
    ELSE LET probs == zeros(Len(model_alphabet(c)))
             r == predict(sm, k, context, probs)
         IN  [status |-> r.status,
              value |-> IF r.status = "ok"
                        THEN r.answer[chars_to_index[nc] + 1] ELSE NoValue,
              predict_called |-> TRUE,
              probs_len |-> Len(probs)]

\* ----------------------------------------------------------- persistence
\* json's escape of one character of a string
json_escape(ch) ==
    CASE ch = 9 -> <<92, 116>>
      [] ch = 10 -> <<92, 110>>
      [] ch = 34 -> <<92, 34>>
      [] ch = 92 -> <<92, 92>>
      [] OTHER -> <<ch>>

RECURSIVE json_encode_str(_)
json_encode_str(s) ==
    IF s = <<>> THEN <<>> ELSE json_escape(Head(s)) \o json_encode_str(Tail(s))

json_unescape(ch) ==
    CASE ch = 116 -> 9
      [] ch = 110 -> 10
      [] OTHER -> ch

RECURSIVE json_decode_str(_)
json_decode_str(t) ==
    IF t = <<>> THEN <<>>
    ELSE IF Head(t) = 92
         THEN <<json_unescape(t[2])>> \o json_decode_str(Tail(Tail(t)))
         ELSE <<Head(t)>> \o json_decode_str(Tail(t))

\* json.dump(self.freq_dict, ofile): the members of the object written, one
\* for each key.  The file holds them in the dict's iteration order, the order
\* in which the keys were inserted; the table is a function and does not carry
\* that order, so the members are kept as a set and their order is left open.
json_dump(d) ==
    {[key |-> json_encode_str(g), value |-> d[g]] : g \in DOMAIN d}

\* json.load(ifile): a plain dict with one entry for each member; the members
\* json.dump wrote have different keys, so none replaces another
json_load(members) ==
    LET keys == {json_decode_str(m.key) : m \in members}
    IN  [g \in keys |->
            (CHOOSE m \in members : json_decode_str(m.key) = g).value]

\* MarkovModel.saveModel
saveModel(d) == [kind |-> "file", members |-> json_dump(d)]

\* MarkovModel.fromModelFile that binds the smoother before it sets freq_dict
fromModelFile_early(file, kind, amount, threshold) ==
    LET oobj == json_load(file.members)
    IN  [kind |-> "model", freq_dict |-> oobj,
         smoother |-> make_smoother(kind, <<>>, amount, threshold)]

\* MarkovModel.fromModelFile: the model it returns
fromModelFile(file, kind, amount, threshold) ==
    LET oobj == json_load(file.members)
    IN  [kind |-> "model", freq_dict |-> oobj,
         smoother |-> make_smoother(kind, oobj, amount, threshold)]

\* --------------------------------------------------------- the inputs
Passwords == Strings(Letters, MaxPwdLen)

\* contexts a caller passes: what has been typed so far, after the start
\* sentinel when the model is the backoff one
Contexts ==
    LET typed == Strings(Letters, MaxCtxLen)
    IN  typed \cup {<<PASSWORD_START>> \o t : t \in {u \in typed : Len(u) < MaxCtxLen}}

\* the vectors a caller hands to predict
InitialVectors ==
    LET n == Len(smoother_alphabet)
    IN  {zeros(n), [i \in 1..n |-> 1]}

\* MarkovModelBuilder.build: the class that goes with a smoothing
builder_cls(kind) == IF kind = "backoff" THEN "BackoffMarkovModel" ELSE "MarkovModel"

\* an empty dict
EmptyDict == <<>>

\* ------------------------------------------------------------- the machine
(***************************************************************************)
(* pc follows the two runs of the program.  The training run builds a      *)
(* model ("training"), train() binds its smoother ("ready") and saveModel  *)
(* writes the table ("saved").  The guessing run builds its model with     *)
(* fromModelFile ("loaded").  A model whose smoother is bound answers      *)
(* predict and probability_next_char; last holds the call and its result   *)
(* until the caller has taken it.  "crashed": an assertion of the trainer  *)
(* failed.                                                                 *)
(***************************************************************************)
QueryOps == {"predict", "probability_next_char"}

\* the model of the running process
self_smoother == IF pc = "loaded" THEN reloaded.smoother ELSE smoother

Idle == pc \in {"ready", "loaded"} /\ last.op \notin QueryOps

\* MarkovModel.SMOOTHING_MAP: its keys
SMOOTHING_MAP == {"none", "additive", "backoff"}

InitConfig(kinds) ==
    /\ config_char_bag = char_bag
    /\ smoothing \in kinds
    /\ cls = builder_cls(smoothing)
    /\ order \in 1..MaxOrder
    /\ additive_smoothing_amount \in
          IF smoothing = "none" THEN {DEFAULT_additive_smoothing_amount}
          ELSE 0..MaxAmount
    /\ backoff_smoothing_threshold \in
          IF smoothing = "backoff" THEN Thresholds
          ELSE {DEFAULT_backoff_smoothing_threshold}

\* MarkovModel.__init__
InitModel ==
    /\ freq_dict = EmptyDict
    /\ smoother = None
    /\ pc = IF PASSWORD_END \in config_char_bag THEN "training" ELSE "crashed"
    /\ ctr = 0
    /\ model_file = None
    /\ reloaded = None
    /\ last = [op |-> "init"]

Init == InitConfig({"none", "additive", "backoff"}) /\ InitModel

\* one iteration of train()'s loop, over a corpus of at most n passwords
TrainOnPwdOf(n) ==
    /\ pc = "training"
    /\ ctr < n
    /\ \E pwd \in Passwords, w \in Weights :
          LET r == train_on_pwd(cls, freq_dict, order, pwd, w)
          IN  /\ freq_dict' = r.freq_dict
              /\ pc' = IF r.status = "ok" THEN "training" ELSE "crashed"
              /\ last' = [op |-> "train_on_pwd", pwd |-> pwd, freq |-> w,
                          status |-> r.status]
    /\ ctr' = ctr + 1
    /\ UNCHANGED <<config_vars, smoother, model_file, reloaded>>

TrainOnPwd == TrainOnPwdOf(MaxTrain)

\* the end of train(): the smoother is bound to the table
TrainDone ==
    /\ pc = "training"
    /\ IF smoothing \in SMOOTHING_MAP
       THEN /\ smoother' = make_smoother(smoothing, freq_dict,
                                         additive_smoothing_amount,
                                         backoff_smoothing_threshold)
            /\ pc' = "ready"
            /\ last' = [op |-> "train", status |-> "ok"]
       ELSE /\ smoother' = smoother
            /\ pc' = "crashed"
            /\ last' = [op |-> "train", status |-> "KeyError"]
    /\ UNCHANGED <<config_vars, freq_dict, ctr, model_file, reloaded>>

\* the model and its smoother hold one table object: what a call leaves in it
\* is seen through both
table_becomes(d) ==
    IF pc = "loaded"
    THEN /\ reloaded' = [reloaded EXCEPT !.freq_dict = d, !.smoother.freq_dict = d]
         /\ UNCHANGED <<freq_dict, smoother>>
    ELSE /\ freq_dict' = d
         /\ smoother' = [smoother EXCEPT !.freq_dict = d]
         /\ UNCHANGED reloaded

\* model.predict(context, answer)
Predict ==
    /\ Idle
    /\ \E context \in Contexts, answer \in InitialVectors :
          LET out == predict(self_smoother, order, context, answer)
          IN  /\ last' = [op |-> "predict", context |-> context,
                          answer |-> answer, out |-> out]
              /\ table_becomes(freq_dict_after_predict(
                      self_smoother.freq_dict,
                      truncate_context(order, context), out.scans))
    /\ UNCHANGED <<config_vars, pc, ctr, model_file>>

\* model.probability_next_char(context, nc)
ProbabilityNextChar ==
    /\ Idle
    /\ \E context \in Contexts, nc \in NextChars :
          LET out == probability_next_char(cls, self_smoother, order, context, nc)
              scans == IF out.predict_called
                       THEN predict(self_smoother, order, context,
                                    zeros(out.probs_len)).scans
                       ELSE 0
          IN  /\ last' = [op |-> "probability_next_char", context |-> context,
                          nc |-> nc, out |-> out]
              /\ table_becomes(freq_dict_after_predict(
                      self_smoother.freq_dict,
                      truncate_context(order, context), scans))
    /\ UNCHANGED <<config_vars, pc, ctr, model_file>>

\* the caller takes the result of its call
Return ==
    /\ last.op \in QueryOps
    /\ last' = [op |-> "return"]
    /\ UNCHANGED <<config_vars, freq_dict, smoother, pc, ctr, model_file, reloaded>>

\* model.saveModel(ofile), the last step of the training run
SaveModel ==
    /\ pc = "ready"
    /\ last.op \notin QueryOps
    /\ model_file' = saveModel(freq_dict)
    /\ pc' = "saved"
    /\ last' = [op |-> "saveModel"]
    /\ UNCHANGED <<config_vars, freq_dict, smoother, ctr, reloaded>>

\* MarkovModel.fromModelFile(model_file, ...), the first step of the guessing run
FromModelFile ==
    /\ pc = "saved"
    /\ reloaded' = fromModelFile(model_file, smoothing, additive_smoothing_amount,
                                 backoff_smoothing_threshold)
    /\ pc' = "loaded"
    /\ last' = [op |-> "fromModelFile"]
    /\ UNCHANGED <<config_vars, freq_dict, smoother, ctr, model_file>>

Next ==
    \/ TrainOnPwd
    \/ TrainDone
    \/ Predict
    \/ ProbabilityNextChar
    \/ Return
    \/ SaveModel
    \/ FromModelFile

Spec == Init /\ [][Next]_vars

\* the prediction of the models that do not back off
NextPredict == TrainOnPwd \/ TrainDone \/ Predict \/ Return
InitSmooth == InitConfig({"none", "additive"}) /\ InitModel
SpecSmooth == InitSmooth /\ [][NextPredict]_vars

\* the prediction of the backoff model
InitBackoff == InitConfig({"backoff"}) /\ InitModel
SpecBackoff == InitBackoff /\ [][NextPredict]_vars

\* construction from any configuration, the permitted ones and the others,
\* followed by training
Kinds == SMOOTHING_MAP \cup {"bogus"}
InitAnyConfig ==
    /\ config_char_bag \in {char_bag, Letters}
    /\ smoothing \in Kinds
    /\ cls = builder_cls(smoothing)
    /\ order \in 0..MaxOrder
    /\ additive_smoothing_amount \in -1..MaxAmount
    /\ backoff_smoothing_threshold \in {-1} \cup Thresholds
NextTrain == TrainOnPwd \/ TrainDone
InitAny == InitAnyConfig /\ InitModel
SpecConfig == InitAny /\ [][NextTrain]_vars

\* train() of the backoff model over a corpus of several passwords; the
\* smoothing amount and the threshold, which the trainer never reads, are the
\* defaults
TrainCorpus == TrainOnPwdOf(MaxCorpus)
NextCorpus == TrainCorpus \/ TrainDone
InitCorpus ==
    /\ InitBackoff
    /\ additive_smoothing_amount = DEFAULT_additive_smoothing_amount
    /\ backoff_smoothing_threshold = DEFAULT_backoff_smoothing_threshold
SpecCorpus == InitCorpus /\ [][NextCorpus]_vars

\* the training run and the start of the guessing run
NextPersist == TrainOnPwd \/ TrainDone \/ SaveModel \/ FromModelFile
SpecPersist == Init /\ [][NextPersist]_vars

\* ================================================================= claims
\* what the claims speak of, stated without the code's operators
\* the smoother of the model that answered the last call
asked_table == self_smoother.freq_dict

\* the count of an ngram, an ngram the table does not hold counting 0
Count(d, ngram) == IF ngram \in DOMAIN d THEN d[ngram] ELSE 0

\* the last n characters of s (all of s when it is shorter)
LastChars(s, n) == IF n >= Len(s) THEN s ELSE SubSeq(s, Len(s) - n + 1, Len(s))

\* how often ngram g is among the members of the sequence gs
Multiplicity(gs, g) == Cardinality({i \in 1..Len(gs) : gs[i] = g})

\* the ngrams the standard trainer is to count for a password
StandardNgrams(k, pwd) ==
    [j \in 1..Min(k - 1, Len(pwd)) |-> SubSeq(pwd, 1, j)]
    \o [n \in 1..Max(Len(pwd) - k + 1, 0) |-> SubSeq(pwd, n, n + k - 1)]
    \o << LastChars(pwd, k - 1) \o <<PASSWORD_END>> >>

\* table d after w has been added to every member of gs
Added(d, gs, w, g) == Count(d, g) + w * Multiplicity(gs, g)

\* the raw total of a context: C of the additive formula
RawTotal(d, ctx) ==
    SumSeq([i \in 1..Len(smoother_alphabet) |->
               Count(d, Append(ctx, smoother_alphabet[i]))])

\* the amount the bound smoother adds to a count
AmountOf(kind, amount) == IF kind = "none" THEN 0 ELSE amount

\* a count after the backoff smoother's threshold
Thresholded(x, threshold) == IF x < threshold THEN 0 ELSE x

\* the total thresholded mass of a context is zero
ZeroMass(d, ctx, amount, threshold) ==
    \A c \in char_bag :
        Thresholded(Count(d, Append(ctx, c)) + amount, threshold) = 0

\* the context the smoother received in the last predict call
ctx_arg_of_last == truncate_context(order, last.context)

PredictCalled == last.op = "predict"
ZeroVector == zeros(Len(smoother_alphabet))

\* C1: train_on_pwd of the standard trainer completes and adds the weight to
\* exactly the prefixes shorter than order, the order-wide windows and the
\* last order-1 characters followed by the end sentinel, and to nothing else.
C1_StandardTrainer ==
    [][(ctr' = ctr + 1 /\ cls = "MarkovModel") =>
          LET gs == StandardNgrams(order, last'.pwd)
              touched == {gs[i] : i \in 1..Len(gs)}
          IN  /\ last'.status = "ok"
              /\ DOMAIN freq_dict' = DOMAIN freq_dict \cup touched
              /\ \A g \in DOMAIN freq_dict' :
                    freq_dict'[g] = Added(freq_dict, gs, last'.freq, g)]_vars

\* C2: with the none or the additive smoother and a zero-initialised vector,
\* entry i of predict is (count(ctx + alphabet[i]) + a) / (C + a*N) whenever
\* C + a*N is not zero.
C2_AdditiveFormula ==
    (PredictCalled /\ smoothing \in {"none", "additive"} /\ last.answer = ZeroVector) =>
        LET a == AmountOf(smoothing, additive_smoothing_amount)
            N == Len(smoother_alphabet)
            C == RawTotal(asked_table, ctx_arg_of_last)
        IN  C + a * N # 0 =>
              /\ last.out.status = "ok"
              /\ Len(last.out.answer) = N
              /\ \A i \in 1..N :
                    /\ last.out.answer[i].den # 0
                    /\ last.out.answer[i].num * (C + a * N) =
                          (Count(asked_table,
                                 Append(ctx_arg_of_last, smoother_alphabet[i])) + a)
                          * last.out.answer[i].den

\* C2's case: order 2, table {"a":1, "ab":1, "b$":1}, predict("a") without
\* smoothing is [0, 0, 1]
C2_Witness ==
    /\ PredictCalled
    /\ smoothing = "none"
    /\ order = 2
    /\ asked_table = (<<97>> :> 1) @@ (<<97, 98>> :> 1) @@ (<<98, PASSWORD_END>> :> 1)
    /\ last.context = <<97>>
    /\ last.answer = ZeroVector
    /\ last.out.answer = << [num |-> 0, den |-> 1], [num |-> 0, den |-> 1],
                            [num |-> 1, den |-> 1] >>

\* C3: when a non-empty context has zero total thresholded mass, backoff
\* predict returns exactly what predict on the context without its leftmost
\* character returns on a fresh vector: nothing of the first scan is left.
C3_BackoffFallback ==
    (/\ PredictCalled
     /\ smoothing = "backoff"
     /\ ctx_arg_of_last # <<>>
     /\ ZeroMass(asked_table, ctx_arg_of_last, additive_smoothing_amount,
                 backoff_smoothing_threshold)) =>
        LET shorter == smoother_predict(self_smoother, Tail(ctx_arg_of_last),
                                        ZeroVector)
        IN  /\ last.out.status = shorter.status
            /\ last.out.answer = shorter.answer

\* C3's case: a 2-character context without mass whose 1-character suffix has
\* mass, asked with a vector that was not zero
C3_Witness ==
    /\ PredictCalled
    /\ smoothing = "backoff"
    /\ Len(ctx_arg_of_last) = 2
    /\ ZeroMass(asked_table, ctx_arg_of_last, additive_smoothing_amount,
                backoff_smoothing_threshold)
    /\ ~ZeroMass(asked_table, Tail(ctx_arg_of_last), additive_smoothing_amount,
                 backoff_smoothing_threshold)
    /\ last.answer # ZeroVector
    /\ last.out.status = "ok"
    /\ last.out.scans = 2

\* the entries of a returned vector are probabilities that sum to 1
Normalized(answer) ==
    /\ \A i \in 1..Len(answer) :
          /\ answer[i].den > 0
          /\ answer[i].num >= 0
          /\ answer[i].num <= answer[i].den
          /\ answer[i].den = answer[1].den
    /\ SumSeq([i \in 1..Len(answer) |-> answer[i].num]) = answer[1].den

\* C4: a predict call on a zero-initialised vector that returns without
\* failing leaves entries in [0,1] that sum to 1, never a degenerate vector.
C4_Normalization ==
    (PredictCalled /\ ctr >= 1 /\ last.answer = ZeroVector /\ last.out.status = "ok") =>
        Normalized(last.out.answer)

\* C5: with the none smoother, or the additive one with amount 0, predict on
\* a context whose total count is zero ends in an error, not in a vector.
C5_UndefinedDistribution ==
    (/\ PredictCalled
     /\ ctr >= 1
     /\ smoothing \in {"none", "additive"}
     /\ AmountOf(smoothing, additive_smoothing_amount) = 0
     /\ last.answer = ZeroVector
     /\ RawTotal(asked_table, ctx_arg_of_last) = 0) =>
        last.out.status # "ok"

\* C6: backoff predict makes at most len(context)+1 scans; it ends by dividing
\* by a nonzero sum or, when the empty context has no mass either, by the
\* assertion failure; it never divides by zero.
C6_BackoffTermination ==
    (PredictCalled /\ smoothing = "backoff") =>
        /\ last.out.scans >= 1
        /\ last.out.scans <= Len(ctx_arg_of_last) + 1
        /\ last.out.status \in {"ok", "AssertionError"}
        /\ last.out.status = "ok" =>
              \A i \in 1..Len(last.out.answer) : last.out.answer[i].den # 0
        /\ last.out.status = "AssertionError" <=>
              \A n \in 0..Len(ctx_arg_of_last) :
                  ZeroMass(asked_table, LastChars(ctx_arg_of_last, n),
                           additive_smoothing_amount, backoff_smoothing_threshold)

\* C6's case: a 2-character context backs off twice and the empty context has
\* no mass either
C6_Witness ==
    /\ PredictCalled
    /\ smoothing = "backoff"
    /\ Len(ctx_arg_of_last) = 2
    /\ last.out.scans = 3
    /\ last.out.status = "AssertionError"
    /\ DOMAIN asked_table # {}

\* C7: once the backoff model has been trained with positive weights, backoff
\* predict never fails with backoff exhaustion, whatever the threshold.
C7_BackoffTrainerGuarantee ==
    (/\ PredictCalled
     /\ cls = "BackoffMarkovModel"
     /\ ctr >= 1
     /\ \A g \in DOMAIN asked_table : asked_table[g] > 0) =>
        last.out.status = "ok"

\* C8: truncate_context returns the trailing order-1 characters of a context
\* of order or more characters and any other context unchanged, so the
\* smoother never receives more than order-1 characters.
C8_Truncation ==
    PredictCalled =>
        /\ ctx_arg_of_last =
              IF Len(last.context) >= order
              THEN SubSeq(last.context, Len(last.context) - (order - 1) + 1,
                          Len(last.context))
              ELSE last.context
        /\ Len(ctx_arg_of_last) <= order - 1

\* the distribution of a context is defined: predict returns a vector
Defined(r) ==
    /\ r.status = "ok"
    /\ \A i \in 1..Len(r.answer) : r.answer[i].den # 0

\* C9: probability_next_char hands predict a vector of the alphabet's size and
\* returns predict's entry at the character's index; for a character outside
\* the alphabet it fails without calling predict.
C9_ProbabilityNextChar ==
    (last.op = "probability_next_char" /\ ctr >= 1) =>
        IF last.nc \in char_bag
        THEN LET r == predict(self_smoother, order, last.context, ZeroVector)
             IN  Defined(r) =>
                    /\ last.out.status = "ok"
                    /\ last.out.probs_len = Len(smoother_alphabet)
                    /\ last.out.value =
                          r.answer[(CHOOSE i \in 1..Len(smoother_alphabet) :
                                        smoother_alphabet[i] = last.nc)]
        ELSE /\ last.out.status = "AssertionError"
             /\ ~last.out.predict_called

\* C10: the model fromModelFile builds from what saveModel wrote, under the
\* same configuration, has the same table and predicts as the saved model.
C10_RoundTrip ==
    last.op = "fromModelFile" =>
        /\ DOMAIN reloaded.freq_dict = DOMAIN freq_dict
        /\ \A g \in DOMAIN freq_dict : reloaded.freq_dict[g] = freq_dict[g]
        /\ \A context \in Contexts, answer \in InitialVectors :
              predict(reloaded.smoother, order, context, answer) =
                  predict(smoother, order, context, answer)

\* C10's case: a table of the backoff trainer, whose keys hold the start
\* sentinel, with a count other than 1, has been saved and loaded
C10_Witness ==
    /\ last.op = "fromModelFile"
    /\ \E g \in DOMAIN freq_dict :
          /\ Len(g) >= 2
          /\ g[1] = PASSWORD_START
          /\ freq_dict[g] = 2
    /\ \E g \in DOMAIN reloaded.freq_dict : g[1] = PASSWORD_START

\* the configuration is one the spec permits
ValidConfig ==
    /\ PASSWORD_END \in config_char_bag
    /\ order >= 1
    /\ smoothing \in {"none", "additive", "backoff"}
    /\ additive_smoothing_amount >= 0
    /\ backoff_smoothing_threshold >= 0

\* C11: a model whose configuration lacks the end sentinel, has order < 1, an
\* unknown smoothing kind or a negative amount or threshold is rejected at
\* construction: no password is trained on, no count is added and no smoother
\* is bound under it.
C11_ConfigurationErrors ==
    ~ValidConfig =>
        /\ ctr = 0
        /\ freq_dict = EmptyDict
        /\ pc # "ready"

\* C12: a prediction reads and never writes: a step that answers predict or
\* probability_next_char leaves the Frequency Table, the smoother bound to it,
\* the order and the alphabet's characters as they were, so any sequence of
\* such calls does.
C12_PredictionReadOnly ==
    [][last'.op \in QueryOps =>
          /\ freq_dict' = freq_dict
          /\ smoother' = smoother
          /\ reloaded' = reloaded
          /\ order' = order
          /\ config_char_bag' = config_char_bag]_vars

\* a model built by fromModelFile answered a prediction from a context none of
\* whose ngrams its table holds
C12_Witness ==
    /\ pc = "loaded"
    /\ last.op \in QueryOps
    /\ asked_table = reloaded.freq_dict
    /\ asked_table # EmptyDict
    /\ \A i \in 1..Len(smoother_alphabet) :
          Append(truncate_context(order, last.context), smoother_alphabet[i])
              \notin DOMAIN asked_table
    /\ last.op = "predict" => last.out.scans >= 1
    /\ last.op = "probability_next_char" => last.out.predict_called

\* the password between its two sentinels
Normalized_pwd(pwd) == <<PASSWORD_START>> \o pwd \o <<PASSWORD_END>>

\* the number of positions at which g is a contiguous substring of s
Occurrences(s, g) ==
    Cardinality({p \in 1..(Len(s) - Len(g) + 1) :
                    SubSeq(s, p, p + Len(g) - 1) = g})

\* the substrings of s of 1 to k characters
Substrings(s, k) ==
    {SubSeq(s, p, q) : p \in 1..Len(s), q \in 1..Len(s)}
        \ {g \in {SubSeq(s, p, q) : p \in 1..Len(s), q \in 1..Len(s)} :
               Len(g) < 1 \/ Len(g) > k}

\* no stored ngram of two or more characters counts more than the ngram
\* without its first or without its last character
Monotone(d) ==
    \A g \in DOMAIN d :
        Len(g) >= 2 =>
            /\ d[g] <= Count(d, Tail(g))
            /\ d[g] <= Count(d, SubSeq(g, 1, Len(g) - 1))

\* every stored count is positive, as in a table built from the empty one by
\* positive weights
Positive(d) == \A g \in DOMAIN d : d[g] > 0

\* C13: train_on_pwd of the backoff trainer completes and adds to every ngram
\* of 1 to order characters the weight times the number of positions at which
\* it occurs in start sentinel + password + end sentinel, and changes no other
\* entry; consequently training with positive weights, which starts from the
\* empty table, goes through tables of positive counts in which no stored ngram
\* of two or more characters counts more than the ngram without its first or
\* without its last character.
C13_BackoffTrainer ==
    [][(ctr' = ctr + 1 /\ cls = "BackoffMarkovModel" /\ order >= 1) =>
          LET s == Normalized_pwd(last'.pwd)
              w == last'.freq
          IN  /\ last'.status = "ok"
              /\ DOMAIN freq_dict' = DOMAIN freq_dict \cup Substrings(s, order)
              /\ \A g \in DOMAIN freq_dict' :
                    freq_dict'[g] =
                        Count(freq_dict, g)
                        + (IF Len(g) >= 1 /\ Len(g) <= order
                           THEN w * Occurrences(s, g) ELSE 0)
              /\ (w > 0 /\ Positive(freq_dict) /\ Monotone(freq_dict)) =>
                    (Positive(freq_dict') /\ Monotone(freq_dict'))]_vars

\* the backoff trainer has counted, as the second password of a corpus and
\* with a positive weight, a password in which an ngram occurs twice: the table
\* held that ngram with count 1 and holds ngrams the password does not have
C13_Witness ==
    /\ cls = "BackoffMarkovModel"
    /\ ctr = 2
    /\ last.op = "train_on_pwd"
    /\ last.status = "ok"
    /\ last.pwd = <<97, 97>>
    /\ last.freq = 2
    /\ order >= 2
    /\ {<<97>>, <<9, 97>>, <<98>>, <<97, 98>>} \subseteq DOMAIN freq_dict
    /\ freq_dict[<<97>>] = 5
    /\ freq_dict[<<9, 97>>] = 3
    /\ freq_dict[<<97, 98>>] = 1
    /\ Positive(freq_dict)
    /\ Monotone(freq_dict)

\* C14: the vector predict leaves depends on the context, the Frequency Table
\* and the configuration only, not on what the vector held before the call:
\* where the context has a distribution, it is the vector the same call leaves
\* in a vector of zeros.
C14_OutputOverwrite ==
    LET fresh == predict(self_smoother, order, last.context, ZeroVector)
    IN  (PredictCalled /\ Defined(fresh)) =>
            /\ last.out.status = fresh.status
            /\ last.out.answer = fresh.answer

====
